---- MODULE Spec2Model ----
(***************************************************************************)
(* Model of odherogrid/config.py: the persistent user configuration of     *)
(* ODHeroGrid.  One process calls the module's entry points load_config    *)
(* and run_first_time_setup one after the other; the user answers every    *)
(* click.confirm / click.prompt and may edit config.yml between two calls; *)
(* the config file and the module-level dict CONFIG_BASE are the state     *)
(* that outlives a call.                                                   *)
(***************************************************************************)
EXTENDS Naturals, Sequences, FiniteSets, TLC

\* ------------------------------------------------------------------ bounds
\* Keys outside CONFIG_BASE a raw record may carry.
MaxUnknown == 1
\* Entries the auto-detected userdata directory may hold.
MaxDirs == 2
\* Rejected inputs in a row that one prompt loop receives.
MaxRetries == 1

\* ------------------------------------------------------- values and dicts
\* Python's None as the value of config["path"]: a path is a tuple here.
None == <<>>
EmptyDict == [k \in {} |-> 0]

\* Variant: the routine returns a new dict that holds only its own key.
PutFresh(d, k, v) == [x \in {k} |-> v]

\* config[k] = v.
Put(d, k, v) == [x \in (DOMAIN d) \cup {k} |-> IF x = k THEN v ELSE d[x]]
Pop(d, k) == [x \in (DOMAIN d) \ {k} |-> d[x]]

\* enums.Brackets and enums.Grouping: the closed catalogs and their defaults.
BracketsStart == 1
BracketsEnd == 8
BracketsDefault == 7
GroupingStart == 0
GroupingEnd == 3
GroupingDefault == 1
BracketValues == BracketsStart..BracketsEnd

\* Variant: the range test lets one value past the last grouping through.
GroupingValuesWide == GroupingStart..(GroupingEnd + 1)

GroupingValues == GroupingStart..GroupingEnd

\* resources.DEFAULT_NAME: a non-empty constant string.
DEFAULT_NAME == "default grid name"

\* Variant: CONFIG_BASE written in the order of the wizard's routines.
CONFIG_BASE_KEYS_wizard_order == <<"path", "brackets", "grouping", "sort", "config_name">>

\* The keys of CONFIG_BASE in the dict's insertion order.
CONFIG_BASE_KEYS == <<"path", "brackets", "grouping", "config_name", "sort">>
Canonical == {CONFIG_BASE_KEYS[i] : i \in 1..Len(CONFIG_BASE_KEYS)}

\* CONFIG_BASE as the module is imported.
StaticBase ==
  [path |-> None, brackets |-> <<BracketsDefault>>, grouping |-> GroupingDefault,
   config_name |-> DEFAULT_NAME, sort |-> TRUE]

HERO_GRID_SUFFIX == "570/remote/cfg/hero_grid_config.json"

\* ------------------------------------------------------------ input sets
UnknownKeyNames == <<"steam", "version", "theme", "layout">>
UnknownKeys == {UnknownKeyNames[i] : i \in 1..MaxUnknown}

\* A value a user's config.yml holds for a key, different from the default.
UserValue(k) ==
  CASE k = "path" -> <<0, HERO_GRID_SUFFIX>>
    [] k = "brackets" -> <<3, 4>>
    [] k = "grouping" -> 3
    [] k = "config_name" -> "my grid"
    [] k = "sort" -> FALSE
    [] OTHER -> "junk"

RawRecord(S) == [k \in S |-> UserValue(k)]
RawRecords == {RawRecord(S) : S \in SUBSET (Canonical \cup UnknownKeys)}

\* The config file: absent; present with text that is not YAML; present and
\* empty (yaml.load gives None); present with a mapping.
AbsentFile == [exists |-> FALSE, parses |-> FALSE, isMap |-> FALSE, rec |-> EmptyDict]
GarbledFile == [exists |-> TRUE, parses |-> FALSE, isMap |-> FALSE, rec |-> EmptyDict]
EmptyFile == [exists |-> TRUE, parses |-> TRUE, isMap |-> FALSE, rec |-> EmptyDict]
MapFile(r) == [exists |-> TRUE, parses |-> TRUE, isMap |-> TRUE, rec |-> r]
FileContents ==
  {AbsentFile, GarbledFile, EmptyFile} \cup {MapFile(r) : r \in RawRecords}

\* What the user may type at "Path: ": one existing directory, one that does
\* not exist, and the quit token in both cases.
PathInputs == {"/steam/userdata/1", "/nowhere", "q", "Q"}
PathExists(p) == p = "/steam/userdata/1"
Lower(p) == IF p = "Q" THEN "q" ELSE p

\* Lines typed at the brackets prompt, split on " " (<<>>: just Enter).
BracketInputs == {<<>>, <<1, 2, 9>>, <<9>>}
\* Integers typed at the grouping prompt (entered = FALSE: just Enter).
NoEntry == [entered |-> FALSE, v |-> 0]
Entry(x) == [entered |-> TRUE, v |-> x]
GroupingInputs == {NoEntry, Entry(2), Entry(GroupingEnd + 1)}
SortInputs == {NoEntry, Entry(2), Entry(3)}
NameInputs == {"", "grid 2"}

\* ------------------------------------------------------------------ state
VARIABLES
  file,        \* the config file CONFIG: absent, empty, or a mapping
  CONFIG_BASE, \* the module-level dict
  obj,         \* the dict object loaded from the file or passed by the caller
  config,      \* what the local name config refers to: "none", "obj", "base"
  pc,          \* the line the process is at
  stack,       \* return frames, innermost first
  missing,     \* missing_keys still to be handled by _fix_missing_keys
  step,        \* index of the wizard's current statement
  cfg_path,    \* the local cfg_path of setup_hero_grid_config_path
  ndirs,       \* len(directories)
  retries,     \* rejected inputs of the current prompt loop
  outcome,     \* how the current top-level call ended
  fileAtStart, \* the file when the current top-level call began
  writes,      \* update_config calls of the current top-level call
  trace,       \* questions, routine calls and writes of the current call
  entry,       \* snapshot taken when check_config_integrity was entered
  prompted,    \* a prompt was asked since check_config_integrity was entered
  abortedBy    \* the gate at which the user aborted, if any

vars == <<file, CONFIG_BASE, obj, config, pc, stack, missing, step, cfg_path,
          ndirs, retries, outcome, fileAtStart, writes, trace, entry,
          prompted, abortedBy>>

\* The dict the local name config refers to.
Cfg == IF config = "base" THEN CONFIG_BASE ELSE obj

Unbound == [kind |-> "unbound", dir |-> 0, str |-> ""]
PathObj(i) == [kind |-> "Path", dir |-> i, str |-> ""]
StrObj(p) == [kind |-> "str", dir |-> 0, str |-> p]

\* What check_config_integrity was entered with: its argument (None or a
\* dict), the file, and how far writes and trace had got.
NoEntrySnapshot ==
  [kind |-> "none", rec |-> EmptyDict, file |-> AbsentFile, writes |-> 0, tlen |-> 0]
Snapshot ==
  [kind |-> IF config = "none" THEN "None" ELSE "dict",
   rec |-> IF config = "none" THEN EmptyDict ELSE Cfg,
   file |-> file, writes |-> writes, tlen |-> Len(trace)]

Init ==
  /\ file \in FileContents
  /\ CONFIG_BASE = StaticBase
  /\ obj = EmptyDict
  /\ config = "none"
  /\ pc = "idle"
  /\ stack = <<>>
  /\ missing = <<>>
  /\ step = 0
  /\ cfg_path = Unbound
  /\ ndirs = 0
  /\ retries = 0
  /\ outcome = "none"
  /\ fileAtStart = file
  /\ writes = 0
  /\ trace = <<>>
  /\ entry = NoEntrySnapshot
  /\ prompted = FALSE
  /\ abortedBy = "none"

\* ------------------------------------------------------- pure functions
\* missing_keys of check_config_integrity: the (key, value) pairs of base, in
\* base's insertion order, whose key is not in cfg.
RECURSIVE MissingFrom(_, _, _)
MissingFrom(keys, cfg, base) ==
  IF keys = <<>> THEN <<>>
  ELSE IF Head(keys) \in DOMAIN cfg THEN MissingFrom(Tail(keys), cfg, base)
  ELSE <<<<Head(keys), base[Head(keys)]>>>> \o MissingFrom(Tail(keys), cfg, base)

\* Variant: the comprehension stops one key short.
MissingKeysDropLast(cfg, base) ==
  LET m == MissingFrom(CONFIG_BASE_KEYS, cfg, base)
  IN IF Len(m) > 1 THEN SubSeq(m, 1, Len(m) - 1) ELSE m

\* Variant: the comprehension has lost its "if key not in config".
MissingKeysUnfiltered(cfg, base) == MissingFrom(CONFIG_BASE_KEYS, EmptyDict, base)

MissingKeys(cfg, base) == MissingFrom(CONFIG_BASE_KEYS, cfg, base)

\* The orders in which "for key in config" may visit the keys of d: the file
\* or the caller decides the order.  Keys of base are left alone by the loop
\* body, so only the order of the other keys is enumerated.
RECURSIVE SeqsOf(_)
SeqsOf(S) ==
  IF S = {} THEN {<<>>}
  ELSE UNION {{<<x>> \o t : t \in SeqsOf(S \ {x})} : x \in S}

KeyOrders(d, base) ==
  LET known == SelectSeq(CONFIG_BASE_KEYS, LAMBDA k : k \in DOMAIN d /\ k \in DOMAIN base)
  IN {known \o u : u \in SeqsOf((DOMAIN d) \ (DOMAIN base))}

\* The loop "for key in config: if key not in CONFIG_BASE: config.pop(key)".
\* A dict iterator raises RuntimeError when asked for the next key after the
\* dict has changed size, before it looks whether any key is left.
RECURSIVE PruneLoop(_, _, _, _, _)
PruneLoop(d, base, order, i, used) ==
  IF Cardinality(DOMAIN d) # used THEN [d |-> d, exc |-> "RuntimeError"]
  ELSE IF i > Len(order) THEN [d |-> d, exc |-> "none"]
  ELSE PruneLoop(IF order[i] \in DOMAIN base THEN d ELSE Pop(d, order[i]),
                 base, order, i + 1, used)

\* Variant: update_config outside the if.
SaveAlways(m) == TRUE

\* "if missing_keys:" decides whether the reconciled record is saved.
NeedsSave(m) == m # <<>>

\* parseargs.parse_arg_brackets: the tokens that are valid brackets, in order.
parse_arg_brackets(tokens) == SelectSeq(tokens, LAMBDA t : t \in BracketValues)

\* Variant: the loop of setup_bracket is left after the first answer.
BracketsAcceptedAlways(brackets) == TRUE

\* "while not brackets" of setup_bracket: the loop ends with a non-empty list.
BracketsAccepted(brackets) == brackets # <<>>

\* Variant: the prompt for the grid name has no default.
PromptTextNoDefault(input, default) == input

\* click.prompt for a string, with a default: an empty line yields the default.
PromptText(input, default) == IF input = "" THEN default ELSE input

\* click.prompt with a default: an empty line yields the default.
PromptDefault(input, default) == IF input.entered THEN input.v ELSE default

\* Variant: the new file is written before the questions are asked.
rfts_save_first == <<"save", "path", "brackets", "grouping", "sort", "config_name">>

\* Variant: the last two routines swapped.
rfts_name_before_sort == <<"path", "brackets", "grouping", "config_name", "sort", "save">>

\* The statements of run_first_time_setup after "config = CONFIG_BASE".
rfts_steps == <<"path", "brackets", "grouping", "sort", "config_name", "save">>

\* CONFIG_FUNCS: the first line of the setup routine of each key.
CONFIG_FUNCS(k) ==
  CASE k = "path" -> "setup_hero_grid_config_path"
    [] k = "brackets" -> "setup_bracket"
    [] k = "grouping" -> "setup_grouping"
    [] k = "config_name" -> "setup_config_name"
    [] k = "sort" -> "setup_winrate_sorting"

\* The finally clause of setup_hero_grid_config_path, line 180: what the
\* statement config["path"] = str(cfg_path / SUFFIX) does for each cfg_path.
\* An exception raised in a finally clause replaces the pending one.
shgcp_finally(cp, pending) ==
  IF cp.kind = "unbound" THEN [exc |-> "UnboundLocalError", set |-> FALSE, path |-> None]
  ELSE IF cp.kind = "str" THEN [exc |-> "TypeError", set |-> FALSE, path |-> None]
  ELSE [exc |-> pending, set |-> TRUE, path |-> <<cp.dir, HERO_GRID_SUFFIX>>]

\* ------------------------------------------------------------ control
Ctl(p, st, m, s, t) ==
  /\ pc' = p
  /\ stack' = st
  /\ missing' = m
  /\ step' = s
  /\ trace' = t
  /\ outcome' = outcome

\* An exception no handler catches ends the process.
Raise(exc) ==
  /\ pc' = "exited"
  /\ outcome' = exc
  /\ UNCHANGED <<stack, missing, step, trace>>

\* Statement i of the wizard: a setup routine is called, or the record saved.
WizardDispatch(i, st, t) ==
  IF i > Len(rfts_steps) THEN Ctl("rfts_L306", st, missing, i, t)
  ELSE IF rfts_steps[i] = "save" THEN Ctl("rfts_L304", st, missing, i, t)
  ELSE Ctl(CONFIG_FUNCS(rfts_steps[i]), <<"rfts">> \o st, missing, i,
           Append(t, <<"call", rfts_steps[i]>>))

\* A setup routine returns config to the wizard or to _fix_missing_keys; t is
\* the history with what the user did at the routine's prompt.
Returning(t) ==
  IF Head(stack) = "rfts" THEN WizardDispatch(step + 1, Tail(stack), t)
  ELSE Ctl(IF Len(missing) = 1 THEN "cci_L88" ELSE "fix_L109",
           Tail(stack), Tail(missing), step, t)

RoutineReturn == Returning(trace)

\* config[k] = v on the dict config refers to.
SetKey(k, v) ==
  IF config = "base"
  THEN CONFIG_BASE' = Put(CONFIG_BASE, k, v) /\ obj' = obj
  ELSE obj' = Put(obj, k, v) /\ CONFIG_BASE' = CONFIG_BASE

\* Variant: the dict dumped is CONFIG_BASE, whatever config is.
update_config_base ==
  /\ file' = MapFile(CONFIG_BASE)
  /\ writes' = writes + 1

\* update_config: the file is replaced by the dump of config.
update_config ==
  /\ file' = MapFile(Cfg)
  /\ writes' = writes + 1

pathVars == <<cfg_path, ndirs>>
dataVars == <<file, CONFIG_BASE, obj, config>>
histVars == <<fileAtStart, writes, entry, prompted, abortedBy>>

\* ------------------------------------------------------ top-level calls
\* The caller starts a call when the previous one has returned.
StartRun(p) ==
  /\ pc' = p
  /\ outcome' = "none"
  /\ UNCHANGED <<stack, missing, step, trace, retries>>
  /\ UNCHANGED dataVars
  /\ UNCHANGED pathVars
  /\ UNCHANGED histVars

call_load_config ==
  /\ pc = "idle"
  /\ StartRun("load_config_L54")

call_run_first_time_setup ==
  /\ pc = "idle"
  /\ StartRun("rfts_L287")

\* config.yml is the user's file: between two calls it may be removed,
\* emptied or rewritten by hand.
user_edits_file ==
  /\ pc = "idle"
  /\ file' \in FileContents \ {file}
  /\ fileAtStart' = file'
  /\ UNCHANGED <<CONFIG_BASE, obj, config, pc, stack, missing, step, cfg_path,
                 ndirs, retries, outcome, writes, trace, entry, prompted,
                 abortedBy>>

\* ------------------------------------------------ _load_config, load_config
\* "except (FileNotFoundError, ValueError)" of load_config, line 55: the
\* exceptions of _load_config that lead to the wizard offer.  yaml.YAMLError
\* derives from Exception only.
Caught(exc) == exc \in {"FileNotFoundError", "ValueError"}

\* Lines 33-36 and 44, and the except clause of load_config (line 55): open()
\* raises FileNotFoundError for an absent file; yaml.load raises a YAMLError
\* for text that is not YAML, gives None for an empty file and the mapping
\* otherwise; "not config" holds for None and {}.
_load_config ==
  /\ pc = "load_config_L54"
  /\ IF ~file.exists
       THEN /\ IF Caught("FileNotFoundError")
                 THEN pc' = "load_config_L56" /\ outcome' = outcome
                 ELSE pc' = "exited" /\ outcome' = "FileNotFoundError"
            /\ UNCHANGED <<obj, config>>
       ELSE IF ~file.parses
       THEN /\ IF Caught("YAMLError")
                 THEN pc' = "load_config_L56" /\ outcome' = outcome
                 ELSE pc' = "exited" /\ outcome' = "YAMLError"
            /\ UNCHANGED <<obj, config>>
       ELSE IF ~file.isMap
       THEN /\ pc' = "_load_config_L37"
            /\ outcome' = outcome
            /\ config' = "none"
            /\ obj' = obj
       ELSE /\ pc' = IF file.rec = EmptyDict THEN "_load_config_L37" ELSE "load_config_L64"
            /\ outcome' = outcome
            /\ config' = "obj"
            /\ obj' = file.rec
  /\ UNCHANGED <<file, CONFIG_BASE, stack, missing, step, trace, retries>>
  /\ UNCHANGED pathVars
  /\ UNCHANGED histVars

\* Lines 37-43: the repair offer.
_load_config_confirm_repair ==
  /\ pc = "_load_config_L37"
  /\ \E answer \in BOOLEAN :
       IF answer
       THEN /\ Ctl("cci_L80", <<"_load_config_L41">> \o stack, missing, step,
                   Append(trace, <<"confirm", "repair">>))
            /\ entry' = Snapshot
            /\ prompted' = FALSE
            /\ abortedBy' = abortedBy
       ELSE /\ pc' = "exited"
            /\ outcome' = "SystemExit"
            /\ trace' = Append(trace, <<"confirm", "repair">>)
            /\ abortedBy' = "repair"
            /\ prompted' = TRUE
            /\ UNCHANGED <<stack, missing, step, entry>>
  /\ UNCHANGED dataVars
  /\ UNCHANGED pathVars
  /\ UNCHANGED <<fileAtStart, writes, retries>>

\* Lines 56-61: the wizard offer.
load_config_confirm_setup ==
  /\ pc = "load_config_L56"
  /\ \E answer \in BOOLEAN :
       IF answer
       THEN /\ Ctl("rfts_L287", <<"load_config_L59">> \o stack, missing, step,
                   Append(trace, <<"confirm", "setup">>))
            /\ abortedBy' = abortedBy
       ELSE /\ pc' = "exited"
            /\ outcome' = "SystemExit"
            /\ trace' = Append(trace, <<"confirm", "setup">>)
            /\ abortedBy' = "setup"
            /\ UNCHANGED <<stack, missing, step>>
  /\ prompted' = TRUE
  /\ UNCHANGED dataVars
  /\ UNCHANGED pathVars
  /\ UNCHANGED <<fileAtStart, writes, entry, retries>>

\* Line 64: config = check_config_integrity(config).
load_config_check ==
  /\ pc = "load_config_L64"
  /\ Ctl("cci_L80", <<"load_config_L64">> \o stack, missing, step, trace)
  /\ entry' = Snapshot
  /\ prompted' = FALSE
  /\ UNCHANGED dataVars
  /\ UNCHANGED pathVars
  /\ UNCHANGED <<fileAtStart, writes, abortedBy, retries>>

\* ------------------------------------------------ check_config_integrity
\* Lines 80-86: the pruning loop and missing_keys.  Iterating None raises
\* TypeError.
check_config_integrity ==
  /\ pc = "cci_L80"
  /\ IF config = "none"
       THEN /\ Raise("TypeError")
            /\ UNCHANGED <<CONFIG_BASE, obj>>
       ELSE \E order \in KeyOrders(Cfg, CONFIG_BASE) :
              LET r == PruneLoop(Cfg, CONFIG_BASE, order, 1, Cardinality(DOMAIN Cfg))
                  m == MissingKeys(r.d, CONFIG_BASE)
              IN /\ IF config = "base"
                      THEN CONFIG_BASE' = r.d /\ obj' = obj
                      ELSE obj' = r.d /\ CONFIG_BASE' = CONFIG_BASE
                 /\ IF r.exc # "none" THEN Raise(r.exc)
                    ELSE Ctl(IF NeedsSave(m)
                             THEN (IF m = <<>> THEN "cci_L88" ELSE "fix_L109")
                             ELSE "cci_L90",
                             stack, m, step, trace)
  /\ UNCHANGED <<file, config, retries>>
  /\ UNCHANGED pathVars
  /\ UNCHANGED histVars

\* Lines 106-115 of _fix_missing_keys: one turn of the loop.
_fix_missing_keys ==
  /\ pc = "fix_L109"
  /\ LET key == Head(missing)[1]
         value == Head(missing)[2]
         asked == Append(trace, <<"ask", key>>)
     IN \E answer \in BOOLEAN :
          IF answer
          THEN /\ Ctl(CONFIG_FUNCS(key), <<"fix">> \o stack, missing, step,
                      Append(asked, <<"call", key>>))
               /\ UNCHANGED <<CONFIG_BASE, obj>>
          ELSE /\ SetKey(key, value)
               /\ Ctl(IF Len(missing) = 1 THEN "cci_L88" ELSE "fix_L109",
                      stack, Tail(missing), step, asked)
  /\ prompted' = TRUE
  /\ UNCHANGED <<file, config, retries>>
  /\ UNCHANGED pathVars
  /\ UNCHANGED <<fileAtStart, writes, entry, abortedBy>>

\* Line 88: update_config(config, filename=filename).
check_config_integrity_save ==
  /\ pc = "cci_L88"
  /\ update_config
  /\ Ctl("cci_L90", stack, missing, step, Append(trace, <<"write", "config">>))
  /\ UNCHANGED <<CONFIG_BASE, obj, config, retries>>
  /\ UNCHANGED pathVars
  /\ UNCHANGED <<fileAtStart, entry, prompted, abortedBy>>

\* ------------------------------------------- setup_hero_grid_config_path
\* The try statement ends in the finally clause whichever way it is left.
Finally(cp, pending) ==
  LET f == shgcp_finally(cp, pending)
  IN /\ cfg_path' = cp
     /\ IF f.set THEN SetKey("path", f.path) ELSE UNCHANGED <<CONFIG_BASE, obj>>
     /\ IF f.exc # "none" THEN Raise(f.exc) ELSE RoutineReturn

\* Lines 153-175: cfg._autodetect_steam_userdata_path raises
\* NotImplementedError on an unsupported platform, or gives a directory whose
\* entries are listed.
setup_hero_grid_config_path ==
  /\ pc = "setup_hero_grid_config_path"
  /\ \E supported \in BOOLEAN, n \in 0..MaxDirs :
       /\ ~supported => n = 0
       /\ ndirs' = n
       /\ pc' = IF n = 0 THEN "ask_L132" ELSE "shgcp_L177"
       /\ trace' = Append(trace, <<"autodetect",
                                   IF ~supported THEN "unsupported"
                                   ELSE IF n = 0 THEN "empty" ELSE "listed">>)
  /\ cfg_path' = Unbound
  /\ retries' = 0
  /\ UNCHANGED <<stack, missing, step, outcome>>
  /\ UNCHANGED dataVars
  /\ UNCHANGED histVars

\* Lines 176-178 and 180: "Select directory (1-n)" until the choice is listed.
shgcp_select ==
  /\ pc = "shgcp_L177"
  /\ \E choice \in 0..(MaxDirs + 1) :
       IF choice \in 1..ndirs
       THEN /\ Finally(PathObj(choice), "none")
            /\ retries' = 0
       ELSE /\ retries < MaxRetries
            /\ retries' = retries + 1
            /\ UNCHANGED <<pc, stack, missing, step, trace, outcome, cfg_path,
                           CONFIG_BASE, obj>>
  /\ prompted' = TRUE
  /\ UNCHANGED <<file, config, ndirs>>
  /\ UNCHANGED <<fileAtStart, writes, entry, abortedBy>>

\* Lines 132-146 of ask_steam_userdata_path, and line 180 when it raises.
ask_steam_userdata_path ==
  /\ pc = "ask_L132"
  /\ \E answer \in BOOLEAN :
       IF answer
       THEN /\ pc' = "get_path_L122"
            /\ abortedBy' = abortedBy
            /\ UNCHANGED <<stack, missing, step, trace, outcome, cfg_path,
                           CONFIG_BASE, obj>>
       ELSE /\ abortedBy' = "manual_decline"
            /\ Finally(Unbound, "SystemExit")
  /\ prompted' = TRUE
  /\ UNCHANGED <<file, config, ndirs, retries>>
  /\ UNCHANGED <<fileAtStart, writes, entry>>

\* Lines 122-123 and 128 of get_path_from_user: the first prompt.  The value
\* returned is the string typed.
get_path_from_user ==
  /\ pc = "get_path_L122"
  /\ \E p \in PathInputs :
       IF PathExists(p)
       THEN Finally(StrObj(p), "none")
       ELSE /\ pc' = "get_path_L125"
            /\ UNCHANGED <<stack, missing, step, trace, outcome, cfg_path,
                           CONFIG_BASE, obj>>
  /\ prompted' = TRUE
  /\ UNCHANGED <<file, config, ndirs, retries>>
  /\ UNCHANGED <<fileAtStart, writes, entry, abortedBy>>

\* Lines 124-128: the re-prompt, with the quit token.
get_path_from_user_again ==
  /\ pc = "get_path_L125"
  /\ \E p \in PathInputs :
       IF Lower(p) = "q"
       THEN /\ abortedBy' = "manual_quit"
            /\ retries' = 0
            /\ Finally(Unbound, "SystemExit")
       ELSE IF PathExists(p)
       THEN /\ abortedBy' = abortedBy
            /\ retries' = 0
            /\ Finally(StrObj(p), "none")
       ELSE /\ retries < MaxRetries
            /\ retries' = retries + 1
            /\ abortedBy' = abortedBy
            /\ UNCHANGED <<pc, stack, missing, step, trace, outcome, cfg_path,
                           CONFIG_BASE, obj>>
  /\ prompted' = TRUE
  /\ UNCHANGED <<file, config, ndirs>>
  /\ UNCHANGED <<fileAtStart, writes, entry>>

\* ------------------------------------------------- the other routines
\* Lines 195-209 with _get_brackets (212-219).
setup_bracket ==
  /\ pc = "setup_bracket"
  /\ \E input \in BracketInputs :
       LET b == IF input = <<>> THEN <<BracketsDefault>> ELSE input
           brackets == parse_arg_brackets(b)
       IN IF BracketsAccepted(brackets)
          THEN /\ SetKey("brackets", brackets)
               /\ RoutineReturn
               /\ retries' = 0
          ELSE /\ retries < MaxRetries
               /\ retries' = retries + 1
               /\ UNCHANGED <<pc, stack, missing, step, trace, outcome,
                              CONFIG_BASE, obj>>
  /\ prompted' = TRUE
  /\ UNCHANGED <<file, config>>
  /\ UNCHANGED pathVars
  /\ UNCHANGED <<fileAtStart, writes, entry, abortedBy>>

\* Lines 232-244.
setup_grouping ==
  /\ pc = "setup_grouping"
  /\ \E input \in GroupingInputs :
       LET grouping == PromptDefault(input, GroupingDefault)
       IN IF grouping \in GroupingValues
          THEN /\ SetKey("grouping", grouping)
               /\ Returning(IF input.entered THEN trace
                            ELSE Append(trace, <<"default", "grouping">>))
               /\ retries' = 0
          ELSE /\ retries < MaxRetries
               /\ retries' = retries + 1
               /\ UNCHANGED <<pc, stack, missing, step, trace, outcome,
                              CONFIG_BASE, obj>>
  /\ prompted' = TRUE
  /\ UNCHANGED <<file, config>>
  /\ UNCHANGED pathVars
  /\ UNCHANGED <<fileAtStart, writes, entry, abortedBy>>

\* Lines 277-282.
setup_winrate_sorting ==
  /\ pc = "setup_winrate_sorting"
  /\ \E input \in SortInputs :
       LET choice == PromptDefault(input, 1)
       IN IF choice \in {1, 2}
          THEN /\ SetKey("sort", choice = 1)
               /\ RoutineReturn
               /\ retries' = 0
          ELSE /\ retries < MaxRetries
               /\ retries' = retries + 1
               /\ UNCHANGED <<pc, stack, missing, step, trace, outcome,
                              CONFIG_BASE, obj>>
  /\ prompted' = TRUE
  /\ UNCHANGED <<file, config>>
  /\ UNCHANGED pathVars
  /\ UNCHANGED <<fileAtStart, writes, entry, abortedBy>>

\* Lines 262-269.
setup_config_name ==
  /\ pc = "setup_config_name"
  /\ \E input \in NameInputs :
       LET name == PromptText(input, DEFAULT_NAME)
       IN /\ IF name # "" THEN SetKey("config_name", name)
             ELSE UNCHANGED <<CONFIG_BASE, obj>>
          /\ Returning(Append(trace, <<"input", input>>))
  /\ prompted' = TRUE
  /\ UNCHANGED <<file, config, retries>>
  /\ UNCHANGED pathVars
  /\ UNCHANGED <<fileAtStart, writes, entry, abortedBy>>

\* ------------------------------------------------ run_first_time_setup
\* Lines 287 and 294-295: config = CONFIG_BASE binds config to the module's
\* dict itself.
run_first_time_setup ==
  /\ pc = "rfts_L287"
  /\ IF file.exists
       THEN /\ pc' = "rfts_L288"
            /\ UNCHANGED <<stack, missing, step, trace, outcome, config>>
       ELSE /\ config' = "base"
            /\ WizardDispatch(1, stack, trace)
  /\ UNCHANGED <<file, CONFIG_BASE, obj, retries>>
  /\ UNCHANGED pathVars
  /\ UNCHANGED histVars

\* Lines 288-295: the overwrite question.
run_first_time_setup_confirm ==
  /\ pc = "rfts_L288"
  /\ \E answer \in BOOLEAN :
       IF answer
       THEN /\ config' = "base"
            /\ WizardDispatch(1, stack, Append(trace, <<"confirm", "overwrite">>))
            /\ abortedBy' = abortedBy
       ELSE /\ pc' = "exited"
            /\ outcome' = "SystemExit"
            /\ trace' = Append(trace, <<"confirm", "overwrite">>)
            /\ abortedBy' = "overwrite"
            /\ UNCHANGED <<stack, missing, step, config>>
  /\ prompted' = TRUE
  /\ UNCHANGED <<file, CONFIG_BASE, obj, retries>>
  /\ UNCHANGED pathVars
  /\ UNCHANGED <<fileAtStart, writes, entry>>

\* Line 304: update_config(config).
run_first_time_setup_save ==
  /\ pc = "rfts_L304"
  /\ update_config
  /\ WizardDispatch(step + 1, stack, Append(trace, <<"write", "config">>))
  /\ UNCHANGED <<CONFIG_BASE, obj, config, retries>>
  /\ UNCHANGED pathVars
  /\ UNCHANGED <<fileAtStart, entry, prompted, abortedBy>>

\* ----------------------------------------------------------- returns
\* Lines 90, 306 and 66: return config to the caller's next statement.  When
\* the top-level call returns its locals are gone.
ReturnToCaller ==
  /\ pc \in {"cci_L90", "rfts_L306", "load_config_L66"}
  /\ IF stack = <<>>
       THEN /\ pc' = "idle"
            /\ outcome' = "returned"
            /\ stack' = <<>>
            /\ obj' = EmptyDict
            /\ config' = "none"
            /\ missing' = <<>>
            /\ step' = 0
            /\ cfg_path' = Unbound
            /\ ndirs' = 0
            /\ fileAtStart' = file
            /\ writes' = 0
            /\ trace' = <<>>
            /\ entry' = NoEntrySnapshot
            /\ prompted' = FALSE
            /\ abortedBy' = "none"
       ELSE /\ pc' = IF Head(stack) = "load_config_L64" THEN "load_config_L66"
                     ELSE "load_config_L64"
            /\ outcome' = outcome
            /\ stack' = Tail(stack)
            /\ UNCHANGED <<obj, config, missing, step, cfg_path, ndirs,
                           fileAtStart, writes, trace, entry, prompted, abortedBy>>
  /\ UNCHANGED <<file, CONFIG_BASE, retries>>

Next ==
  \/ call_load_config
  \/ call_run_first_time_setup
  \/ user_edits_file
  \/ _load_config
  \/ _load_config_confirm_repair
  \/ load_config_confirm_setup
  \/ load_config_check
  \/ check_config_integrity
  \/ _fix_missing_keys
  \/ check_config_integrity_save
  \/ setup_hero_grid_config_path
  \/ shgcp_select
  \/ ask_steam_userdata_path
  \/ get_path_from_user
  \/ get_path_from_user_again
  \/ setup_bracket
  \/ setup_grouping
  \/ setup_winrate_sorting
  \/ setup_config_name
  \/ run_first_time_setup
  \/ run_first_time_setup_confirm
  \/ run_first_time_setup_save
  \/ ReturnToCaller

Spec == Init /\ [][Next]_vars

\* ------------------------------------------------------------- claims
InTrace(e) == \E i \in 1..Len(trace) : trace[i] = e

\* The events of the current call that are routine calls or writes.
CallsAndWrites == SelectSeq(trace, LAMBDA e : e[1] \in {"call", "write"})

\* check_config_integrity was entered with a dict.
EntryIsDict == entry.kind = "dict"
EntryUnknown == (DOMAIN entry.rec) \ Canonical
EntryMissing == Canonical \ (DOMAIN entry.rec)

\* Since check_config_integrity was entered no setup routine was called:
\* every per-field question was answered no.
DeclinedAll ==
  \A i \in (entry.tlen + 1)..Len(trace) : trace[i][1] # "call"

\* C1: a raw record with at least one unknown key is reconciled without
\* failing on that account, and the record returned has exactly the
\* canonical key set.
C1_UnknownKeysPruned ==
  (EntryIsDict /\ EntryUnknown # {}) =>
    /\ outcome # "RuntimeError"
    /\ (pc = "cci_L90" => DOMAIN Cfg = Canonical)

\* C2: for a raw record that lacks the canonical keys S and has no unknown
\* key, when the user declines every per-field question the record returned
\* is the input extended with the static default of each key of S; the keys
\* that were present keep their input values.
C2_DeclinedKeysGetStaticDefaults ==
  (pc = "cci_L90" /\ EntryIsDict /\ EntryUnknown = {} /\ DeclinedAll) =>
    Cfg = [k \in Canonical |->
             IF k \in DOMAIN entry.rec THEN entry.rec[k] ELSE StaticBase[k]]

\* C3: reconciling a record that already has exactly the canonical keys asks
\* no prompt, writes nothing and returns the record unchanged; and every
\* record check_config_integrity returns is such a record, so that a second
\* application in a row changes neither the record nor the file.
C3_CanonicalRecordUntouched ==
  pc = "cci_L90" =>
    /\ DOMAIN Cfg = Canonical
    /\ (EntryIsDict /\ DOMAIN entry.rec = Canonical) =>
         /\ ~prompted
         /\ writes = entry.writes
         /\ file = entry.file
         /\ Cfg = entry.rec

\* Witness of C3: the second check of load_config returns, right after the
\* first one (called by _load_config on an empty mapping) repaired the record.
C3_Witness ==
  /\ pc = "cci_L90"
  /\ stack = <<"load_config_L64">>
  /\ InTrace(<<"confirm", "repair">>)
  /\ EntryIsDict
  /\ DOMAIN entry.rec = Canonical
  /\ entry.writes = 1

\* C4: every record update_config has written for the reconciler or the
\* wizard has exactly the five canonical keys, and the reconciler writes only
\* when no missing key is left to fill.
C4_WrittenRecordCanonical ==
  /\ writes > 0 => (file.exists /\ file.isMap /\ DOMAIN file.rec = Canonical)
  /\ pc = "cci_L88" => (missing = <<>> /\ DOMAIN Cfg = Canonical)

\* Witness of C4: the reconciler has written a record that lacked three keys.
C4_Witness ==
  /\ pc = "cci_L90"
  /\ writes = 1
  /\ EntryIsDict
  /\ Cardinality(EntryMissing) = 3
  /\ file = MapFile(Cfg)

\* C5: when the config file is empty and the user accepts the repair offer,
\* load_config completes with a record that has all five canonical keys, and
\* the file holds exactly that record.
C5_EmptyFileRepaired ==
  (fileAtStart = EmptyFile /\ InTrace(<<"confirm", "repair">>) /\ abortedBy # "repair") =>
    /\ outcome \notin {"TypeError", "RuntimeError"}
    /\ pc = "load_config_L66" => (DOMAIN Cfg = Canonical /\ file = MapFile(Cfg))

\* C6: a run that ends in a user abort has written nothing: the file is what
\* it was when the run began.
C6_AbortLeavesFileUntouched ==
  abortedBy # "none" => (file = fileAtStart /\ writes = 0)

\* Witness of C6: the user quits manual path entry in the middle of a
\* reconciliation that had already filled nothing of an existing file.
C6_Witness ==
  /\ pc = "exited"
  /\ abortedBy = "manual_quit"
  /\ InTrace(<<"ask", "path">>)
  /\ fileAtStart.exists

\* C7: when the user declines manual path entry or types the quit token,
\* setup_hero_grid_config_path ends with SystemExit and no other error.
C7_ManualAbortIsSystemExit ==
  (pc = "exited" /\ abortedBy \in {"manual_decline", "manual_quit"}) =>
    outcome = "SystemExit"

\* C8: whenever setup_hero_grid_config_path has obtained a base directory,
\* listed or typed, it returns normally and config["path"] is that directory
\* followed by the fixed suffix.
C8_PathIsBasePlusSuffix ==
  cfg_path.kind # "unbound" =>
    /\ pc # "exited"
    /\ "path" \in DOMAIN Cfg
    /\ Cfg["path"] = <<IF cfg_path.kind = "Path" THEN cfg_path.dir ELSE 0,
                       HERO_GRID_SUFFIX>>

\* C9: a completed run of run_first_time_setup has called the routines once
\* each in the order path, brackets, grouping, sort, config_name, and has
\* written the record once, after the last of them.
C9_WizardOrderThenSingleWrite ==
  pc = "rfts_L306" =>
    /\ CallsAndWrites = <<<<"call", "path">>, <<"call", "brackets">>,
                          <<"call", "grouping">>, <<"call", "sort">>,
                          <<"call", "config_name">>, <<"write", "config">>>>
    /\ writes = 1
    /\ file = MapFile(Cfg)

\* Witness of C9: a wizard run completes with values that are not the defaults.
C9_Witness ==
  /\ pc = "rfts_L306"
  /\ Cfg["grouping"] # GroupingDefault
  /\ Cfg["sort"] = FALSE
  /\ Cfg["config_name"] # DEFAULT_NAME
  /\ Cfg["brackets"] = <<1, 2>>

\* C10: a reconciliation pass that changes the record, by removing an unknown
\* key or adding a missing one, writes the reconciled record before it
\* returns; a record with the five canonical keys and an unknown key is such
\* a case.
C10_ChangedRecordIsSaved ==
  /\ (pc = "cci_L90" /\ EntryIsDict /\ Cfg # entry.rec) =>
       (writes = entry.writes + 1 /\ file = MapFile(Cfg))
  /\ (EntryIsDict /\ EntryMissing = {} /\ EntryUnknown # {} /\ pc \in {"cci_L90", "exited"}) =>
       (pc = "cci_L90" /\ DOMAIN Cfg = Canonical /\ file = MapFile(Cfg))

\* C11: the first step of load_config turns a missing file into the wizard
\* offer and a file that is empty or does not parse into the repair offer: it
\* leaves the process at the question, never ended by the load error.
C11_LoadErrorsReachTheOffer ==
  [][pc = "load_config_L54" =>
       /\ ~file.exists => pc' = "load_config_L56"
       /\ (file.exists /\ (~file.parses \/ ~file.isMap)) => pc' = "_load_config_L37"
       /\ outcome' = outcome]_vars

\* The per-field questions asked since check_config_integrity was entered.
AsksSinceEntry ==
  SelectSeq(SubSeq(trace, entry.tlen + 1, Len(trace)), LAMBDA e : e[1] = "ask")

\* One question for each canonical key the entry record lacks, in the order
\* path, brackets, grouping, config_name, sort.
ExpectedAsks ==
  LET keys == SelectSeq(<<"path", "brackets", "grouping", "config_name", "sort">>,
                        LAMBDA k : k \notin DOMAIN entry.rec)
  IN [i \in 1..Len(keys) |-> <<"ask", keys[i]>>]

IsPrefix(a, b) == Len(a) <= Len(b) /\ a = SubSeq(b, 1, Len(a))

\* C12: during a reconciliation pass the supply-a-value question is asked
\* once for each missing canonical key and for no present key, in the order
\* path, brackets, grouping, config_name, sort: at any moment the questions
\* asked so far are the first ones of that list, and when the pass saves or
\* returns they are the whole list.
C12_OneQuestionPerMissingKeyInOrder ==
  EntryIsDict =>
    /\ IsPrefix(AsksSinceEntry, ExpectedAsks)
    /\ pc \in {"cci_L88", "cci_L90"} => AsksSinceEntry = ExpectedAsks

\* Witness of C12: a pass has returned for a record that lacked brackets,
\* config_name and sort; the user supplied brackets and declined the others.
C12_Witness ==
  /\ pc = "cci_L90"
  /\ EntryIsDict
  /\ EntryMissing = {"brackets", "config_name", "sort"}
  /\ Len(AsksSinceEntry) = 3
  /\ InTrace(<<"call", "brackets">>)
  /\ ~InTrace(<<"call", "sort">>)

\* The key whose setup routine the process is in, "none" outside the routines.
RoutineOf(p) ==
  CASE p \in {"setup_hero_grid_config_path", "shgcp_L177", "ask_L132",
              "get_path_L122", "get_path_L125"} -> "path"
    [] p = "setup_bracket" -> "brackets"
    [] p = "setup_grouping" -> "grouping"
    [] p = "setup_config_name" -> "config_name"
    [] p = "setup_winrate_sorting" -> "sort"
    [] OTHER -> "none"

\* C13: no step of a per-field setup routine, its return included, changes,
\* adds or removes a key of the record other than the routine's own key.
C13_RoutineChangesOnlyItsKey ==
  [][RoutineOf(pc) # "none" =>
       \A k \in ((DOMAIN Cfg) \cup (DOMAIN Cfg')) \ {RoutineOf(pc)} :
         /\ k \in DOMAIN Cfg
         /\ k \in DOMAIN Cfg'
         /\ Cfg'[k] = Cfg[k]]_vars

\* Witness of C13: setup_grouping has returned to a reconciliation pass with
\* a new grouping, and the four keys the record came with hold their values.
C13_Witness ==
  /\ pc = "cci_L88"
  /\ EntryIsDict
  /\ EntryMissing = {"grouping"}
  /\ InTrace(<<"call", "grouping">>)
  /\ Cfg["grouping"] = 2
  /\ \A k \in DOMAIN entry.rec : Cfg[k] = entry.rec[k]

\* C14: an answer at the brackets prompt either stores nothing and leaves
\* setup_bracket at its prompt, or stores a non-empty list of valid brackets
\* and ends the routine; of the lines "1 2 9", "9" and the empty line only
\* [1, 2] and the default bracket are ever stored.
C14_BracketsNonEmptyAndValid ==
  [][pc = "setup_bracket" =>
       \/ pc' = "setup_bracket" /\ Cfg' = Cfg
       \/ /\ pc' # "setup_bracket"
          /\ "brackets" \in DOMAIN Cfg'
          /\ Cfg'["brackets"] # <<>>
          /\ \A i \in 1..Len(Cfg'["brackets"]) :
               Cfg'["brackets"][i] \in BracketsStart..BracketsEnd
          /\ Cfg'["brackets"] \in {<<1, 2>>, <<BracketsDefault>>}]_vars

\* Witness of C14: setup_bracket has returned to a reconciliation pass and
\* the record that came without brackets holds [1, 2], the valid part of the
\* line "1 2 9".
C14_Witness ==
  /\ pc = "cci_L88"
  /\ EntryIsDict
  /\ EntryMissing = {"brackets"}
  /\ InTrace(<<"call", "brackets">>)
  /\ Cfg["brackets"] = <<1, 2>>

\* C15: an answer at the grouping prompt either stores nothing and leaves
\* setup_grouping at its prompt, or stores a value of the Grouping catalog and
\* ends the routine; when the user accepted the prompt's default the value
\* stored is the catalog's default.
C15_GroupingInCatalog ==
  [][pc = "setup_grouping" =>
       \/ pc' = "setup_grouping" /\ Cfg' = Cfg
       \/ /\ pc' # "setup_grouping"
          /\ "grouping" \in DOMAIN Cfg'
          /\ Cfg'["grouping"] \in GroupingStart..GroupingEnd
          /\ InTrace(<<"default", "grouping">>)' =>
               Cfg'["grouping"] = GroupingDefault]_vars

\* Witness of C15: the wizard's grouping question was answered with Enter
\* and setup_grouping has returned with the catalog's default stored.
C15_Witness ==
  /\ pc = "setup_winrate_sorting"
  /\ config = "base"
  /\ InTrace(<<"default", "grouping">>)
  /\ Cfg["grouping"] = GroupingDefault
  /\ retries = 0

\* C16: when setup_config_name returns, config_name is present and not the
\* empty string: after an empty answer it is the default name, after any
\* other answer it is that answer.
C16_NameNeverEmpty ==
  [][pc = "setup_config_name" =>
       /\ "config_name" \in DOMAIN Cfg'
       /\ Cfg'["config_name"] # ""
       /\ \A n \in NameInputs :
            InTrace(<<"input", n>>)' =>
              Cfg'["config_name"] = (IF n = "" THEN DEFAULT_NAME ELSE n)]_vars

\* Witness of C16: an empty answer filled the missing config_name of a
\* record under reconciliation with the default name.
C16_Witness ==
  /\ pc = "cci_L88"
  /\ EntryIsDict
  /\ "config_name" \in EntryMissing
  /\ InTrace(<<"input", "">>)
  /\ Cfg["config_name"] = DEFAULT_NAME

\* C17: a run of the wizard in which the user aborts at no gate ends by
\* returning, never by an error, and when it returns the file has been
\* written once with the record; this on each branch of path resolution
\* (a listed directory, manual entry on an unsupported platform, manual entry
\* after an empty listing).
C17_WizardCompletesUnlessAborted ==
  /\ (config = "base" /\ pc = "exited") => abortedBy # "none"
  /\ pc = "rfts_L306" => (writes = 1 /\ file = MapFile(Cfg))

\* C18: CONFIG_BASE holds the static defaults at every moment, whatever calls
\* were made before in the process.
C18_ConfigBaseKeepsStaticDefaults == CONFIG_BASE = StaticBase

\* The process is in, or has returned from, the check of line 64 of a
\* load_config run that went through the repair offer or the wizard offer.
InSecondCheck ==
  /\ stack # <<>>
  /\ stack[Len(stack)] = "load_config_L64"
  /\ InTrace(<<"confirm", "repair">>) \/ InTrace(<<"confirm", "setup">>)

\* C19: a top-level run writes the config file at most once, and the check
\* of line 64, when it comes after the repair or after the wizard, asks
\* nothing and writes nothing.
C19_AtMostOneWritePerRun ==
  /\ writes <= 1
  /\ InSecondCheck => (~prompted /\ writes = entry.writes /\ file = entry.file)

\* Witness of C19: the check of line 64 returns after the wizard, accepted at
\* the wizard offer, has written the file.
C19_Witness ==
  /\ pc = "cci_L90"
  /\ InSecondCheck
  /\ InTrace(<<"confirm", "setup">>)
  /\ writes = 1

\* C20: when load_config is about to return, the record it returns has
\* exactly the five canonical keys and the file holds that record, key by key.
C20_ReturnedRecordIsTheFile ==
  pc = "load_config_L66" =>
    /\ DOMAIN Cfg = Canonical
    /\ file.exists /\ file.isMap
    /\ DOMAIN file.rec = Canonical
    /\ \A k \in Canonical : file.rec[k] = Cfg[k]

\* Witness of C20: load_config returns a record of the file that lacked two
\* keys and was completed and saved by the single check of line 64.
C20_Witness ==
  /\ pc = "load_config_L66"
  /\ writes = 1
  /\ EntryIsDict
  /\ Cardinality(EntryMissing) = 2
  /\ ~InTrace(<<"confirm", "repair">>)
  /\ ~InTrace(<<"confirm", "setup">>)

====
